---- MODULE Spec2Model ----
(***************************************************************************)
(* A model of odsgenerator.py: the ODSGenerator class that turns a         *)
(* JSON-like description (document -> tabs -> rows -> cells) into an ODF   *)
(* spreadsheet, with its style catalog, the cascade of style defaults and  *)
(* the registration of styles into the output document.                    *)
(*                                                                         *)
(* The odfdo backend (Document, Table, Row, Cell) is abstracted to what    *)
(* the generator reads and writes: the styles registered in the document,  *)
(* the names of the tables appended, the column styles of the table being  *)
(* built, the style of the row and of the cell just built.                 *)
(***************************************************************************)
EXTENDS Integers, Sequences, FiniteSets, TLC

VARIABLES
    pc,              \* position of the control flow of the process
    calls,           \* number of ODSGenerator objects constructed so far
    DEFAULTS_DICT,   \* the module-level dict (line 343), shared by the process
    content,         \* locals of parse: the defaults and styles of the content
    tab_counter,     \* self.tab_counter
    styles_elements, \* self.styles_elements: name -> style element
    used_styles,     \* self.used_styles
    doc_styles,      \* self.doc: name -> the style elements inserted under it
    doc_auto,        \* self.doc: number of anonymous automatic styles inserted
    doc_body,        \* self.doc.body: names of the tables appended, in order
    table,           \* locals of parse_table: the Table under construction
    row,             \* locals of parse_row: the Row under construction
    cell,            \* parse_cell: the Cell just appended to the row
    guess            \* the arguments and result of a lone guess_style call

vars == <<pc, calls, DEFAULTS_DICT, content, tab_counter, styles_elements, used_styles,
          doc_styles, doc_auto, doc_body, table, row, cell, guess>>

----------------------------------------------------------------------------
(* Bounds of the model. *)

MaxCalls == 2
MaxUserStyles == 2
MaxTabs == 3
MaxRows == 2
MaxCells == 3
MaxStyledCells == 1
MaxStyleList == 2
MaxWidthList == 3

----------------------------------------------------------------------------
(* Python values. *)

\* Python's None, where a style name is expected.
None == "None"

\* Truth value of a style name or of a width: None and "" are falsy.
Truthy(x) == x # None /\ x # ""

Max(a, b) == IF a >= b THEN a ELSE b

\* The runtime classes of the cell values of the model: JSON strings,
\* integers, floats, booleans, null, and a list (what split returns for a
\* dict cell without a "value" key).
Kinds == {"str", "int", "float", "bool", "NoneType", "list"}

\* isinstance(value, cls) for a value of class kind: bool is a subclass of int.
isinstance(kind, cls) ==
    \/ kind = cls
    \/ kind = "bool" /\ cls = "int"

----------------------------------------------------------------------------
(* The built-in styles and defaults. *)

Style(family, origin) == [family |-> family, origin |-> origin]

BuiltinDef(name, family, always) ==
    [name |-> name, family |-> family, always_insert |-> always]

\* DEFAULT_STYLES, in list order: the name, the family of the element the
\* definition parses to, and the always_insert flag.
DEFAULT_STYLES == <<
    BuiltinDef("default_table_row", "table-row", FALSE),
    BuiltinDef("table_row_1cm", "table-row", FALSE),
    BuiltinDef("bold", "table-cell", FALSE),
    BuiltinDef("bold_center", "table-cell", FALSE),
    BuiltinDef("left", "table-cell", FALSE),
    BuiltinDef("right", "table-cell", FALSE),
    BuiltinDef("center", "table-cell", FALSE),
    BuiltinDef("dec1", "number", TRUE),
    BuiltinDef("dec2", "number", TRUE),
    BuiltinDef("dec4", "number", TRUE),
    BuiltinDef("dec6", "number", TRUE),
    BuiltinDef("integer", "number", TRUE),
    BuiltinDef("integer_no0", "number", TRUE),
    BuiltinDef("grid06", "table-cell", FALSE),
    BuiltinDef("bold_left_bg_gray_grid06", "table-cell", FALSE),
    BuiltinDef("bold_center_bg_gray_grid06", "table-cell", FALSE),
    BuiltinDef("grid06_right", "table-cell", FALSE),
    BuiltinDef("grid06_int", "table-cell", FALSE),
    BuiltinDef("grid06_center_int", "table-cell", FALSE),
    BuiltinDef("grid06_dec1", "table-cell", FALSE),
    BuiltinDef("grid06_dec2", "table-cell", FALSE),
    BuiltinDef("grid06_dec4", "table-cell", FALSE),
    BuiltinDef("grid06_dec6", "table-cell", FALSE),
    BuiltinDef("cell_dec2", "table-cell", FALSE) >>

Slots == {"style_table_row", "style_table_cell", "style_str", "style_int",
          "style_float", "style_other"}

\* The value of DEFAULTS_DICT when the module is imported.
DEFAULTS_DICT_0 ==
    [s \in Slots |->
        CASE s = "style_table_row" -> "default_table_row"
          [] s = "style_table_cell" -> ""
          [] s = "style_str" -> "left"
          [] s = "style_int" -> "right"
          [] s = "style_float" -> "right"
          [] s = "style_other" -> "left"]

----------------------------------------------------------------------------
(* ODSGenerator: the operations on the catalog and on the document. *)

\* self.defaults: __init__ binds it to the module-level dict itself, not to
\* a copy, so it is the same object as DEFAULTS_DICT throughout.
self_defaults(module_dict) == module_dict

\* dict.update: the keys of other overwrite those of d.
update(d, other) ==
    [k \in DOMAIN d \cup DOMAIN other |->
        IF k \in DOMAIN other THEN other[k] ELSE d[k]]

\* The state of the catalog and of the document that the style operations
\* read and write.
Reg(se, used, ds) == [se |-> se, used |-> used, ds |-> ds]

\* self.doc.insert_style(style, automatic=True) for a named style: the
\* document receives the element under that name.
doc_insert_style(ds, name, style) ==
    [n \in DOMAIN ds \cup {name} |->
        IF n = name
        THEN (IF n \in DOMAIN ds THEN Append(ds[n], style) ELSE <<style>>)
        ELSE ds[n]]

\* insert_style without the test on used_styles: every call inserts.
insert_style_again(r, name) ==
    IF Truthy(name) /\ name \in DOMAIN r.se
    THEN [r EXCEPT !.ds = doc_insert_style(r.ds, name, r.se[name]),
                   !.used = r.used \cup {name}]
    ELSE r

\* insert_style(name).
insert_style(r, name) ==
    IF Truthy(name) /\ name \notin r.used /\ name \in DOMAIN r.se
    THEN [r EXCEPT !.ds = doc_insert_style(r.ds, name, r.se[name]),
                   !.used = r.used \cup {name}]
    ELSE r

\* load_style that keeps the element already stored under the name.
load_style_keep(r, name, style, always) ==
    LET r1 == [r EXCEPT !.se = [n \in DOMAIN r.se \cup {name} |->
                                    IF n \in DOMAIN r.se THEN r.se[n] ELSE style]]
    IN IF always THEN insert_style(r1, name) ELSE r1

\* load_style that leaves the insertion to the first use of the style.
load_style_lazy(r, name, style, always) ==
    [r EXCEPT !.se = [n \in DOMAIN r.se \cup {name} |->
                         IF n = name THEN style ELSE r.se[n]]]

\* One iteration of a loop of parse_styles: store the element under its
\* name, then insert it when the definition is flagged always_insert.
load_style(r, name, style, always) ==
    LET r1 == [r EXCEPT !.se = [n \in DOMAIN r.se \cup {name} |->
                                    IF n = name THEN style ELSE r.se[n]]]
    IN IF always THEN insert_style(r1, name) ELSE r1

RECURSIVE load_builtin(_, _)
\* The first loop of parse_styles, from DEFAULT_STYLES[i] on.
load_builtin(r, i) ==
    IF i > Len(DEFAULT_STYLES) THEN r
    ELSE LET s == DEFAULT_STYLES[i]
         IN load_builtin(load_style(r, s.name, Style(s.family, 0),
                                    s.always_insert), i + 1)

RECURSIVE load_caller(_, _, _)
\* The second loop of parse_styles, from styles[i] on. The element parsed
\* from the i-th definition of the caller is identified by its index.
load_caller(r, styles, i) ==
    IF i > Len(styles) THEN r
    ELSE LET s == styles[i]
         IN load_caller(load_style(r, s.name, Style(s.family, i),
                                   s.always_insert), styles, i + 1)

\* parse_styles(opt), with styles = opt.get("styles") a list (an absent
\* key, or a value that is no list, behaves as the empty list).
parse_styles(r, styles) == load_caller(load_builtin(r, 1), styles, 1)

\* The style option of a node: absent, a single name, or a list of names.
Absent == [tag |-> "absent", s |-> "", l |-> <<>>]
Single(name) == [tag |-> "str", s |-> name, l |-> <<>>]
List(names) == [tag |-> "list", s |-> "", l |-> names]

\* style_list of guess_style: opt.get("style", []), wrapped in a list when
\* it is not one.
style_list(opt) ==
    CASE opt.tag = "absent" -> <<>>
      [] opt.tag = "list" -> opt.l
      [] opt.tag = "str" -> <<opt.s>>

\* The test of guess_style without the comparison of the families.
family_match_any(se, name, family) == name \in DOMAIN se

\* The test of guess_style on one name: the catalog holds a style of that
\* name and its family is the one asked for.
family_match(se, name, family) ==
    name \in DOMAIN se /\ se[name].family = family

RECURSIVE guess_loop(_, _, _, _)
\* The for loop of guess_style from position i on: the first truthy name
\* that passes the test, or None when the loop ends without returning.
guess_loop(se, names, family, i) ==
    IF i > Len(names) THEN None
    ELSE IF Truthy(names[i]) /\ family_match(se, names[i], family)
         THEN names[i]
         ELSE guess_loop(se, names, family, i + 1)

\* guess_style that tries the default before the names of the option.
guess_style_default_first(se, opt, family, default) ==
    IF Truthy(default) /\ family_match(se, default, family)
    THEN default
    ELSE guess_loop(se, style_list(opt), family, 1)

\* guess_style that returns a truthy default without looking it up.
guess_style_default_unchecked(se, opt, family, default) ==
    LET found == guess_loop(se, style_list(opt), family, 1)
    IN IF found # None THEN found
       ELSE IF Truthy(default) THEN default ELSE None

\* guess_style(opt, family, default).
guess_style(se, opt, family, default) ==
    LET found == guess_loop(se, style_list(opt), family, 1)
    IN IF found # None THEN found
       ELSE IF Truthy(default) /\ family_match(se, default, family)
            THEN default
            ELSE None

\* The default handed to guess_style by parse_cell.
cell_default(defaults, kind, style_table_cell) ==
    IF Truthy(style_table_cell) THEN style_table_cell
    ELSE IF isinstance(kind, "str") THEN defaults["style_str"]
    ELSE IF isinstance(kind, "int") THEN defaults["style_int"]
    ELSE IF isinstance(kind, "float") THEN defaults["style_float"]
    ELSE defaults["style_other"]

\* An unstyled column, and a column whose style is the automatic style
\* number id, generated for the width w.
NoColumnStyle == [id |-> 0, width |-> ""]
ColumnStyle(id, w) == [id |-> id, width |-> w]

\* table.get_column(position) / table.set_column(position, column) with
\* column.style set: positions count from 0, the table grows to hold the
\* position when it lies beyond its width.
set_column(columns, position, style) ==
    [i \in 1..Max(Len(columns), position + 1) |->
        IF i = position + 1 THEN style
        ELSE IF i <= Len(columns) THEN columns[i] ELSE NoColumnStyle]

\* The state parse_width works on: the columns of the table and the number
\* of automatic styles of the document.
Cols(columns, auto) == [columns |-> columns, auto |-> auto]

\* column.style = self.column_width_style(width); table.set_column(...):
\* column_width_style inserts a new anonymous element into the document,
\* which names it and returns the name.
style_column(c, position, width) ==
    [columns |-> set_column(c.columns, position, ColumnStyle(c.auto + 1, width)),
     auto |-> c.auto + 1]

RECURSIVE width_list_loop_all(_, _, _)
\* The loop over a list of widths without the test on the width.
width_list_loop_all(c, widths, position) ==
    IF position >= Len(widths) THEN c
    ELSE width_list_loop_all(style_column(c, position, widths[position + 1]),
                             widths, position + 1)

RECURSIVE width_list_loop(_, _, _)
\* The loop of parse_width over a list, from position on.
width_list_loop(c, widths, position) ==
    IF position >= Len(widths) THEN c
    ELSE width_list_loop(
            IF Truthy(widths[position + 1])
            THEN style_column(c, position, widths[position + 1])
            ELSE c,
            widths, position + 1)

RECURSIVE width_all_loop(_, _, _)
\* The loop of parse_width over table.get_columns(), from position on.
width_all_loop(c, width, position) ==
    IF position >= Len(c.columns) THEN c
    ELSE width_all_loop(style_column(c, position, width), width, position + 1)

\* parse_width(table, opt), with width_opt = opt.get("width").
parse_width(c, width_opt) ==
    CASE width_opt.tag = "absent" -> c
      [] width_opt.tag = "list" ->
            IF width_opt.l = <<>> THEN c
            ELSE width_list_loop(c, width_opt.l, 0)
      [] width_opt.tag = "str" ->
            IF ~Truthy(width_opt.s) THEN c
            ELSE width_all_loop(c, width_opt.s, 0)

\* The name option of a tab: opt.get("name", "Tab <tab_counter>").
DefaultTabName(n) == <<"Tab", n>>
table_name(name_opt, counter) ==
    IF name_opt.tag = "absent" THEN DefaultTabName(counter) ELSE <<name_opt.s>>

----------------------------------------------------------------------------
(* The state of the process. *)

NoDict == [k \in {} |-> ""]
NoOpt == [defaults |-> NoDict, styles |-> <<>>]
NoTable == [name |-> <<>>, name_opt |-> Absent, style_opt |-> Absent,
            style_table_row |-> None, style_table_cell |-> None,
            nrows |-> 0, columns |-> <<>>, width_opt |-> Absent]
NoRow == [style_opt |-> Absent, style |-> None, style_table_cell |-> None,
          ncells |-> 0]
NoCell == [kind |-> "", style_opt |-> Absent, style |-> None]
NoGuess == [opt |-> Absent, family |-> "", default |-> None, result |-> None]

TheReg == Reg(styles_elements, used_styles, doc_styles)

SetReg(r) ==
    /\ styles_elements' = r.se
    /\ used_styles' = r.used
    /\ doc_styles' = r.ds

Init ==
    /\ pc = "idle"
    /\ calls = 0
    /\ DEFAULTS_DICT = DEFAULTS_DICT_0
    /\ content = NoOpt
    /\ tab_counter = 0
    /\ styles_elements = NoDict
    /\ used_styles = {}
    /\ doc_styles = [k \in {} |-> <<>>]
    /\ doc_auto = 0
    /\ doc_body = <<>>
    /\ table = NoTable
    /\ row = NoRow
    /\ cell = NoCell
    /\ guess = NoGuess

\* __init__ with a counter of tabs that belongs to the class: it is not
\* set back to 0 for a new generator.
Construct_keep_counter ==
    /\ pc = "idle"
    /\ calls < MaxCalls
    /\ calls' = calls + 1
    /\ pc' = "parse"
    /\ DEFAULTS_DICT' = self_defaults(DEFAULTS_DICT)
    /\ content' = NoOpt
    /\ styles_elements' = NoDict
    /\ used_styles' = {}
    /\ doc_styles' = [k \in {} |-> <<>>]
    /\ doc_auto' = 0
    /\ doc_body' = <<>>
    /\ UNCHANGED <<tab_counter, table, row, cell, guess>>

\* ODSGenerator.__init__, up to the call of parse: a new document, a
\* counter at 0, self.defaults bound to DEFAULTS_DICT, an empty catalog.
Construct ==
    /\ pc = "idle"
    /\ calls < MaxCalls
    /\ calls' = calls + 1
    /\ pc' = "parse"
    /\ tab_counter' = 0
    /\ DEFAULTS_DICT' = self_defaults(DEFAULTS_DICT)
    /\ content' = NoOpt
    /\ styles_elements' = NoDict
    /\ used_styles' = {}
    /\ doc_styles' = [k \in {} |-> <<>>]
    /\ doc_auto' = 0
    /\ doc_body' = <<>>
    /\ UNCHANGED <<table, row, cell, guess>>

\* parse(content), up to the loop over the body: the defaults of the
\* content update self.defaults, then parse_styles loads the catalog.
Parse(defaults, styles) ==
    /\ pc = "parse"
    /\ content' = [defaults |-> defaults, styles |-> styles]
    /\ DEFAULTS_DICT' = update(self_defaults(DEFAULTS_DICT), defaults)
    /\ SetReg(parse_styles(TheReg, styles))
    /\ pc' = "body"
    /\ UNCHANGED <<calls, tab_counter, doc_auto, doc_body, table, row, cell, guess>>

\* parse_table(table_content), up to the loop over the rows.
ParseTable(name_opt, style_opt) ==
    /\ pc = "body"
    /\ tab_counter < MaxTabs
    /\ tab_counter' = tab_counter + 1
    /\ table' = [name |-> table_name(name_opt, tab_counter + 1),
                 name_opt |-> name_opt,
                 style_opt |-> style_opt,
                 style_table_row |->
                    guess_style(styles_elements, style_opt, "table-row",
                                self_defaults(DEFAULTS_DICT)["style_table_row"]),
                 style_table_cell |->
                    guess_style(styles_elements, style_opt, "table-cell",
                                self_defaults(DEFAULTS_DICT)["style_table_cell"]),
                 nrows |-> 0, columns |-> <<>>, width_opt |-> Absent]
    /\ pc' = "table"
    /\ UNCHANGED <<calls, DEFAULTS_DICT, content, styles_elements, used_styles,
                   doc_styles, doc_auto, doc_body, row, cell, guess>>

\* parse_row(table, row_content, ...), up to the loop over the cells.
ParseRow(style_opt) ==
    /\ pc = "table"
    /\ table.nrows < MaxRows
    /\ LET style_table_row ==
              guess_style(styles_elements, style_opt, "table-row",
                          table.style_table_row)
       IN /\ SetReg(insert_style(TheReg, style_table_row))
          /\ row' = [style_opt |-> style_opt,
                     style |-> style_table_row,
                     style_table_cell |->
                        guess_style(styles_elements, style_opt, "table-cell",
                                    table.style_table_cell),
                     ncells |-> 0]
    /\ pc' = "row"
    /\ UNCHANGED <<calls, DEFAULTS_DICT, content, tab_counter, doc_auto, doc_body,
                   table, cell, guess>>

\* parse_cell(row, cell_content, style_table_cell).
ParseCell(kind, style_opt) ==
    /\ pc = "row"
    /\ row.ncells < MaxCells
    /\ LET default == cell_default(self_defaults(DEFAULTS_DICT), kind,
                                   row.style_table_cell)
           style == guess_style(styles_elements, style_opt, "table-cell", default)
       IN /\ SetReg(insert_style(TheReg, style))
          /\ cell' = [kind |-> kind, style_opt |-> style_opt, style |-> style]
    /\ row' = [row EXCEPT !.ncells = @ + 1]
    /\ UNCHANGED <<pc, calls, DEFAULTS_DICT, content, tab_counter, doc_auto,
                   doc_body, table, guess>>

\* The end of parse_row: table.append(row). The table grows to the width
\* of the row.
AppendRow ==
    /\ pc = "row"
    /\ table' = [table EXCEPT
                    !.nrows = @ + 1,
                    !.columns = [i \in 1..Max(Len(@), row.ncells) |->
                                    NoColumnStyle]]
    /\ row' = NoRow
    /\ cell' = NoCell
    /\ pc' = "table"
    /\ UNCHANGED <<calls, DEFAULTS_DICT, content, tab_counter, styles_elements,
                   used_styles, doc_styles, doc_auto, doc_body, guess>>

\* parse_table after the last row: parse_width(table, opt).
ParseWidth(width_opt) ==
    /\ pc = "table"
    /\ LET c == parse_width(Cols(table.columns, doc_auto), width_opt)
       IN /\ table' = [table EXCEPT !.columns = c.columns,
                                    !.width_opt = width_opt]
          /\ doc_auto' = c.auto
    /\ pc' = "append"
    /\ UNCHANGED <<calls, DEFAULTS_DICT, content, tab_counter, styles_elements,
                   used_styles, doc_styles, doc_body, row, cell, guess>>

\* The end of parse_table: self.doc.body.append(table).
AppendTable ==
    /\ pc = "append"
    /\ doc_body' = Append(doc_body, table.name)
    /\ table' = NoTable
    /\ pc' = "body"
    /\ UNCHANGED <<calls, DEFAULTS_DICT, content, tab_counter, styles_elements,
                   used_styles, doc_styles, doc_auto, row, cell, guess>>

\* The loop of parse over the body ends: parse and __init__ return.
Done ==
    /\ pc = "body"
    /\ pc' = "done"
    /\ UNCHANGED <<calls, DEFAULTS_DICT, content, tab_counter, styles_elements,
                   used_styles, doc_styles, doc_auto, doc_body, table, row,
                   cell, guess>>

\* content_to_ods returns after doc.save; the process may call it again.
Save ==
    /\ pc = "done"
    /\ pc' = "idle"
    /\ UNCHANGED <<calls, DEFAULTS_DICT, content, tab_counter, styles_elements,
                   used_styles, doc_styles, doc_auto, doc_body, table, row,
                   cell, guess>>

\* guess_style(opt, family, default) on its own, on the catalog of the state.
GuessStyle(style_opt, family, default) ==
    /\ pc = "guess"
    /\ guess = NoGuess
    /\ guess' = [opt |-> style_opt, family |-> family, default |-> default,
                 result |-> guess_style(styles_elements, style_opt, family,
                                        default)]
    /\ UNCHANGED <<pc, calls, DEFAULTS_DICT, content, tab_counter, styles_elements,
                   used_styles, doc_styles, doc_auto, doc_body, table, row,
                   cell>>

----------------------------------------------------------------------------
(* The inputs. *)

SeqUpTo(S, n) == UNION {[1..k -> S] : k \in 0..n}

\* The "defaults" of the content: absent, or one slot set to a cell style
\* or to a row style.
DefaultsOpts ==
    {NoDict} \cup
    {[k \in {s} |-> v] : s \in Slots, v \in {"bold", "table_row_1cm"}}

\* The definitions of the "styles" of the content: a name (missing, new,
\* or that of a built-in style, always_insert or not), the family of the
\* element the definition parses to, and the always_insert flag.
CallerNames == {"", "custom", "left", "dec2"}
CallerDefs ==
    [name : CallerNames, family : {"table-cell", "table-row"},
     always_insert : BOOLEAN]

\* The lists of styles of the caller for guess_style alone: none, or one
\* definition.
GuessStyles == {<<>>} \cup {<<d>> : d \in CallerDefs}

\* The lists of styles of the caller for a run: table-cell styles under
\* every name, and table-row styles under the new name.
CallerStyles ==
    SeqUpTo({d \in CallerDefs : d.family = "table-cell" \/ d.name = "custom"},
            MaxUserStyles)

\* The style options of the tabs, rows and cells of a body: absent, one
\* name, or a list of two names whose first is empty, of no style, of the
\* other family or a match.
BodyStyleOpts ==
    {Absent, Single("bold"), Single("custom"), Single("table_row_1cm"),
     List(<<"", "center">>), List(<<"table_row_1cm", "grid06">>),
     List(<<"custom", "bold">>), List(<<"center", "bold">>)}

\* The contents of the runs on a body with style options: every default
\* without styles of the caller, or two lists of styles of the caller
\* without defaults.
BodyContents ==
    {[defaults |-> d, styles |-> <<>>] : d \in DefaultsOpts} \cup
    {[defaults |-> NoDict, styles |-> s] :
        s \in {<<[name |-> "custom", family |-> "table-cell",
                  always_insert |-> FALSE]>>,
               <<[name |-> "bold", family |-> "table-row",
                  always_insert |-> FALSE]>>}}

\* The defaults of the contents of successive runs.
RunDefaults ==
    {NoDict, [k \in {"style_str"} |-> "bold"],
     [k \in {"style_table_row"} |-> "table_row_1cm"]}

\* The names of the style options handed to guess_style: the empty string,
\* built-in cell styles (one that the caller may redefine), a built-in row
\* style, and a name that is in the catalog only when the caller defines it.
Cands == {"", "bold", "left", "table_row_1cm", "custom"}

StyleOpts ==
    {Absent} \cup {Single(n) : n \in Cands}
             \cup {List(l) : l \in SeqUpTo(Cands, MaxStyleList)}

NameOpts == {Absent, Single("Sheet")}

Widths == {"", "2cm", "4cm"}
WidthOpts ==
    {Absent} \cup {Single(w) : w \in Widths}
             \cup {List(l) : l \in SeqUpTo(Widths, MaxWidthList)}

----------------------------------------------------------------------------
(* The specifications. *)

\* The first call of the process, the first tab of a body, the first row
\* of a tab.
FirstCall == calls = 0 /\ Construct
FirstTable(style_opt) == tab_counter = 0 /\ ParseTable(Absent, style_opt)
FirstRow(style_opt) == table.nrows = 0 /\ ParseRow(style_opt)
StyledCell(kind, style_opt) ==
    row.ncells < MaxStyledCells /\ ParseCell(kind, style_opt)

\* One run of the generator on a body of one tab of one row: every default,
\* every style option at the three levels, every kind of value.
Next ==
    \/ FirstCall
    \/ \E c \in BodyContents : Parse(c.defaults, c.styles)
    \/ \E o \in BodyStyleOpts : FirstTable(o)
    \/ \E o \in BodyStyleOpts : FirstRow(o)
    \/ \E k \in Kinds, o \in BodyStyleOpts : StyledCell(k, o)
    \/ AppendRow
    \/ ParseWidth(Absent)
    \/ AppendTable
    \/ Done

Spec == Init /\ [][Next]_vars

\* Several runs in one process, with or without defaults, on bodies of
\* tabs with or without a name, of rows with or without a style, of
\* strings and numbers with or without a style.
NextRuns ==
    \/ Construct
    \/ \E d \in RunDefaults : Parse(d, <<>>)
    \/ \E n \in NameOpts : ParseTable(n, Absent)
    \/ \E o \in {Absent, Single("table_row_1cm")} : ParseRow(o)
    \/ \E k \in {"str", "float"}, o \in {Absent, Single("bold")} :
          ParseCell(k, o)
    \/ AppendRow
    \/ ParseWidth(Absent)
    \/ AppendTable
    \/ Done
    \/ Save

SpecRuns == Init /\ [][NextRuns]_vars

\* One run on tabs of rows of strings: every width option.
NextWidth ==
    \/ FirstCall
    \/ Parse(NoDict, <<>>)
    \/ ParseTable(Absent, Absent)
    \/ ParseRow(Absent)
    \/ ParseCell("str", Absent)
    \/ AppendRow
    \/ \E w \in WidthOpts : ParseWidth(w)
    \/ AppendTable
    \/ Done

SpecWidth == Init /\ [][NextWidth]_vars

\* One run with every list of styles of the caller, on a body of one tab
\* of rows whose cells name the styles the caller may define.
NextCatalog ==
    \/ FirstCall
    \/ \E s \in CallerStyles : Parse(NoDict, s)
    \/ FirstTable(Absent)
    \/ \E o \in {Absent, Single("custom")} : FirstRow(o)
    \/ \E k \in {"str", "int"}, o \in {Absent, Single("custom"), Single("dec2")} :
          StyledCell(k, o)
    \/ AppendRow
    \/ ParseWidth(Absent)
    \/ AppendTable
    \/ Done

SpecCatalog == Init /\ [][NextCatalog]_vars

\* guess_style as a function: the catalog of the built-in styles alone or
\* with one definition of the caller, every style option, family and
\* default.
InitGuess ==
    /\ pc = "guess"
    /\ calls = 1
    /\ DEFAULTS_DICT = DEFAULTS_DICT_0
    /\ \E s \in GuessStyles :
          /\ content = [defaults |-> NoDict, styles |-> s]
          /\ LET r == parse_styles(Reg(NoDict, {}, [k \in {} |-> <<>>]), s)
             IN /\ styles_elements = r.se
                /\ used_styles = r.used
                /\ doc_styles = r.ds
    /\ tab_counter = 0
    /\ doc_auto = 0
    /\ doc_body = <<>>
    /\ table = NoTable
    /\ row = NoRow
    /\ cell = NoCell
    /\ guess = NoGuess

NextGuess ==
    \E o \in StyleOpts, f \in {"table-row", "table-cell"}, d \in Cands \cup {None} :
        GuessStyle(o, f, d)

SpecGuess == InitGuess /\ [][NextGuess]_vars

----------------------------------------------------------------------------
(* What the properties are stated with. These definitions say what a name *)
(* resolves to without following the control flow of guess_style.         *)

\* The names of a style option: a single name counts as a list of one.
Candidates(o) == IF o.tag = "str" THEN <<o.s>> ELSE o.l

\* name is the name of a style of the catalog, of the family asked for. The
\* empty string and None stand for the absence of a name.
IsStyle(name, family) ==
    /\ name \notin {"", None}
    /\ name \in DOMAIN styles_elements
    /\ styles_elements[name].family = family

\* The first of the names that is a style of the family, None without one.
FirstMatch(names, family) ==
    LET hits == {i \in 1..Len(names) : IsStyle(names[i], family)}
    IN IF hits = {} THEN None
       ELSE names[CHOOSE i \in hits : \A j \in hits : i <= j]

\* What a style option resolves to, with a fallback.
Resolved(o, family, fallback) ==
    IF FirstMatch(Candidates(o), family) # None
    THEN FirstMatch(Candidates(o), family)
    ELSE IF IsStyle(fallback, family) THEN fallback ELSE None

\* The catalog is loaded: parse_styles has returned.
Loaded == pc \notin {"idle", "parse", "guess"}

\* The definitions loaded by the run, in load order: the built-in ones,
\* then those of the caller.
NLoaded == Len(DEFAULT_STYLES) + Len(content.styles)
LoadedDef(i) ==
    IF i <= Len(DEFAULT_STYLES)
    THEN [name |-> DEFAULT_STYLES[i].name,
          always_insert |-> DEFAULT_STYLES[i].always_insert,
          style |-> Style(DEFAULT_STYLES[i].family, 0)]
    ELSE LET j == i - Len(DEFAULT_STYLES)
         IN [name |-> content.styles[j].name,
             always_insert |-> content.styles[j].always_insert,
             style |-> Style(content.styles[j].family, j)]
DefsOf(name) == {i \in 1..NLoaded : LoadedDef(i).name = name}
LastOf(S) == CHOOSE i \in S : \A j \in S : j <= i
FirstOf(S) == CHOOSE i \in S : \A j \in S : i <= j

----------------------------------------------------------------------------
(* C1 *)

\* C1: in a run, the document receives the element of a name at most once:
\* the names of used_styles are those the document received an element
\* for, each exactly once, whatever the number of rows and cells that
\* resolved to it; the style of the cell just built is among them.
C1_InsertOnce ==
    /\ used_styles = DOMAIN doc_styles
    /\ \A n \in DOMAIN doc_styles : Len(doc_styles[n]) = 1
    /\ cell # NoCell /\ cell.style # None => cell.style \in used_styles

\* Three cells of a row, in the second run, all resolved to "left": one
\* element under that name.
C1_Witness ==
    /\ calls = 2
    /\ pc = "row" /\ row.ncells = 3
    /\ used_styles \cap {"left", "right", "bold"} = {"left"}
    /\ Len(doc_styles["left"]) = 1

----------------------------------------------------------------------------
(* C2 *)

\* C2: guess_style returns the first name of the option, in list order,
\* that is a style of the catalog of the family asked for (a single name
\* counting as a list of one); without one, the default when it is a style
\* of the catalog of that family; else None. A name of no style, or of a
\* style of another family, is passed over.
C2_GuessStyle ==
    guess # NoGuess =>
        guess.result = Resolved(guess.opt, guess.family, guess.default)

\* A list whose first name is a style of the other family and whose second
\* name is returned.
C2_Witness ==
    /\ guess.opt.tag = "list" /\ Len(guess.opt.l) = 2
    /\ guess.opt.l[1] \in DOMAIN styles_elements
    /\ guess.opt.l[1] # guess.opt.l[2]
    /\ guess.result = guess.opt.l[2]
    /\ IsStyle(guess.default, guess.family)

----------------------------------------------------------------------------
(* C3 *)

\* The slot of the defaults for a kind of value, for the kinds of the
\* input grammar (string, integer, floating-point number, null) and for a
\* list.
KindSlot(kind) ==
    CASE kind = "str" -> "style_str"
      [] kind = "int" -> "style_int"
      [] kind = "float" -> "style_float"
      [] OTHER -> "style_other"

\* C3: the style of a cell is the first table-cell style of its own
\* option; without one, the first table-cell style of the option of its
\* row; without one, the first table-cell style of the option of its tab;
\* without one, the style_table_cell of the defaults when it is a
\* table-cell style; and only then a default chosen by the kind of the
\* value (which slot a boolean takes, that of an integer or that of the
\* other kinds, is left to C4).
C3_Cascade ==
    cell # NoCell =>
        LET own == FirstMatch(Candidates(cell.style_opt), "table-cell")
            ofrow == FirstMatch(Candidates(row.style_opt), "table-cell")
            oftab == FirstMatch(Candidates(table.style_opt), "table-cell")
            dflt == DEFAULTS_DICT["style_table_cell"]
        IN CASE own # None -> cell.style = own
             [] own = None /\ ofrow # None -> cell.style = ofrow
             [] own = None /\ ofrow = None /\ oftab # None -> cell.style = oftab
             [] own = None /\ ofrow = None /\ oftab = None
                    /\ IsStyle(dflt, "table-cell") -> cell.style = dflt
             [] OTHER ->
                    \E s \in (IF cell.kind = "bool"
                              THEN {"style_int", "style_other"}
                              ELSE {KindSlot(cell.kind)}) :
                        cell.style = Resolved(Absent, "table-cell",
                                              DEFAULTS_DICT[s])

\* Cell, row and tab each name a table-cell style, all different: the cell
\* has the style it names.
C3_Witness ==
    /\ cell # NoCell
    /\ LET own == FirstMatch(Candidates(cell.style_opt), "table-cell")
           ofrow == FirstMatch(Candidates(row.style_opt), "table-cell")
           oftab == FirstMatch(Candidates(table.style_opt), "table-cell")
       IN /\ None \notin {own, ofrow, oftab}
          /\ Cardinality({own, ofrow, oftab}) = 3
          /\ cell.style = own

----------------------------------------------------------------------------
(* C4 *)

\* C4: a cell without a cascaded default and without a table-cell style in
\* its own option has the default of the kind of its value: style_str for
\* a string, style_int for an integer, style_float for a floating-point
\* number, style_other for a value of any other kind (a boolean, null, a
\* list), when that default is a table-cell style.
C4_TypeDefault ==
    /\ cell # NoCell
    /\ ~Truthy(row.style_table_cell)
    /\ FirstMatch(Candidates(cell.style_opt), "table-cell") = None
    => cell.style = Resolved(Absent, "table-cell",
                             DEFAULTS_DICT[KindSlot(cell.kind)])

----------------------------------------------------------------------------
(* C5 *)

\* C5: the counter of tabs is 0 when a run starts and counts the tabs of
\* the run; a tab without a name is named "Tab n", n its position in the
\* body counted from 1, in every run; a tab with a name keeps it.
C5_TabNames ==
    /\ pc = "parse" => tab_counter = 0
    /\ pc \in {"table", "row", "append"} =>
          /\ tab_counter = Len(doc_body) + 1
          /\ table.name = IF table.name_opt = Absent
                          THEN DefaultTabName(Len(doc_body) + 1)
                          ELSE <<table.name_opt.s>>
    /\ \A i \in 1..Len(doc_body) :
          doc_body[i] \in {DefaultTabName(i), <<"Sheet">>}

\* Three tabs without a name in the second run of the process.
C5_Witness ==
    /\ calls = 2
    /\ doc_body = <<DefaultTabName(1), DefaultTabName(2), DefaultTabName(3)>>

----------------------------------------------------------------------------
(* C6 *)

\* The width of the entry of a list for the column at a position, "" when
\* the list has none.
Entry(widths, position) ==
    IF position < Len(widths) THEN widths[position + 1] ELSE ""

\* C6: after parse_width with a list, the columns that have a style are
\* those whose entry of the list is present and not empty, the others are
\* as they were (without style); the style of each is an automatic style
\* of its own, made for the width of its entry and inserted for it alone:
\* the last automatic styles of the document, one per styled column.
C6_SparseWidths ==
    pc = "append" /\ table.width_opt.tag = "list" =>
        LET widths == table.width_opt.l
            styled == {p \in 0..(Len(table.columns) - 1) :
                          table.columns[p + 1] # NoColumnStyle}
        IN /\ styled = {p \in 0..(Len(widths) - 1) : widths[p + 1] # ""}
           /\ \A p \in styled : table.columns[p + 1].width = Entry(widths, p)
           /\ {table.columns[p + 1].id : p \in styled} =
                 (doc_auto - Cardinality(styled) + 1)..doc_auto
           /\ \A p, q \in styled :
                 p # q => table.columns[p + 1].id # table.columns[q + 1].id

\* The list ["2cm", "", "4cm"] on a tab of three columns, after another tab
\* with styled columns.
C6_Witness ==
    /\ pc = "append"
    /\ table.width_opt = List(<<"2cm", "", "4cm">>)
    /\ table.nrows > 0
    /\ Len(table.columns) = 3
    /\ table.columns[2] = NoColumnStyle
    /\ table.columns[1].width = "2cm" /\ table.columns[3].width = "4cm"
    /\ Len(doc_body) > 0 /\ doc_auto > 2

----------------------------------------------------------------------------
(* C7 *)

\* C7 as stated: once the catalog is loaded, it maps every name to the
\* last definition loaded under it, and what the document received under a
\* name is that last definition.
C7_LastWriterWins ==
    Loaded =>
        /\ \A n \in DOMAIN styles_elements :
              styles_elements[n] = LoadedDef(LastOf(DefsOf(n))).style
        /\ \A n \in DOMAIN doc_styles :
              doc_styles[n] = <<styles_elements[n]>>

\* The definition handed to the document for a name: the first one flagged
\* always_insert, in load order, when there is one, else the last one.
Handed(n) ==
    LET flagged == {i \in DefsOf(n) : LoadedDef(i).always_insert}
    IN IF flagged # {} THEN LoadedDef(FirstOf(flagged)).style
       ELSE LoadedDef(LastOf(DefsOf(n))).style

\* C7 amended: once the catalog is loaded, it maps every name to the last
\* definition loaded under it; what the document received under a name is
\* the first definition of that name flagged always_insert, in load order
\* (the built-in ones first), when there is one, and the last definition
\* loaded else.
C7_LastWriterUnlessInserted ==
    Loaded =>
        /\ \A n \in DOMAIN styles_elements :
              styles_elements[n] = LoadedDef(LastOf(DefsOf(n))).style
        /\ \A n \in DOMAIN doc_styles : doc_styles[n] = <<Handed(n)>>

\* The caller defines "left" twice, never always_insert, and a cell uses
\* it: the document received the second definition.
C7_Witness ==
    /\ Loaded
    /\ Len(content.styles) = 2
    /\ content.styles[1].name = "left" /\ content.styles[2].name = "left"
    /\ "left" \in DOMAIN doc_styles
    /\ doc_styles["left"] = <<Style(content.styles[2].family, 2)>>

----------------------------------------------------------------------------
(* C8 *)

\* C8: when a generator has been constructed and has not parsed its
\* content yet, its defaults are the built-in ones, whatever the runs
\* before it in the process.
C8_FreshDefaults ==
    pc = "parse" => self_defaults(DEFAULTS_DICT) = DEFAULTS_DICT_0

----------------------------------------------------------------------------
(* C9 *)

\* C9: once the catalog is loaded, and so before the first tab, every name
\* carried by a definition flagged always_insert, built-in or of the
\* caller, is in used_styles and the document has received an element
\* under it.
C9_AlwaysInsert ==
    Loaded =>
        \A i \in 1..NLoaded :
            LoadedDef(i).always_insert /\ LoadedDef(i).name # "" =>
                /\ LoadedDef(i).name \in used_styles
                /\ LoadedDef(i).name \in DOMAIN doc_styles
                /\ Len(doc_styles[LoadedDef(i).name]) > 0

\* Before the first tab, the style "custom" of the caller, flagged
\* always_insert, is inserted.
C9_Witness ==
    /\ pc = "body" /\ tab_counter = 0
    /\ \E i \in 1..Len(content.styles) :
          content.styles[i].name = "custom" /\ content.styles[i].always_insert
    /\ "custom" \in used_styles
    /\ "custom" \in DOMAIN doc_styles

----------------------------------------------------------------------------
(* C10 *)

\* C10: the style of the row under construction, when it has one, is a
\* table-row style of the catalog and is in used_styles; the style of the
\* cell just built, when it has one, is a table-cell style of the catalog
\* and is in used_styles; used_styles holds names of the catalog only.
C10_StylesResolved ==
    /\ pc = "row" /\ row.style \notin {"", None} =>
          IsStyle(row.style, "table-row") /\ row.style \in used_styles
    /\ cell # NoCell /\ cell.style \notin {"", None} =>
          IsStyle(cell.style, "table-cell") /\ cell.style \in used_styles
    /\ used_styles \subseteq DOMAIN styles_elements

\* A row and its cell that both have a style, named in their options.
C10_Witness ==
    /\ pc = "row" /\ cell # NoCell
    /\ row.style = FirstMatch(Candidates(row.style_opt), "table-row")
    /\ cell.style = FirstMatch(Candidates(cell.style_opt), "table-cell")
    /\ row.style # None /\ cell.style # None

====
